---- MODULE Spec2Model ----
(***************************************************************************)
(* Model of the resilient telemetry transport of talis-agent:              *)
(* internal/api/client.go (Client.Request, Client.doRequest and the        *)
(* CircuitBreaker), the loop of TelemetryClient.Start that calls it and    *)
(* the shutdown sequence of main.  Time is a discrete clock `now`; every   *)
(* caller of Client.Request is a small program counter machine.            *)
(***************************************************************************)
EXTENDS Integers, Sequences, FiniteSets, TLC

\* ---------------------------------------------------------------- bounds
MaxTime == 7            \* the clock stops here
failureThreshold == 2   \* ClientConfig.FailureThreshold
resetTimeout == 2       \* ClientConfig.ResetTimeout, in clock units
maxRetries == 2         \* ClientConfig.MaxRetries
retryDelay == 1         \* ClientConfig.RetryDelay, in clock units
RequestTimeout == 1     \* ClientConfig.RequestTimeout, in clock units
BurstLimit == 2         \* ClientConfig.BurstLimit
RateLimit == 1          \* ClientConfig.RateLimit, tokens per clock unit
MetricsInterval == 2    \* config.Metrics.CollectionInterval, in clock units
CheckinInterval == 3    \* config.CheckinInterval, in clock units
Window == 3             \* the clock of the long-running agent slides from here on
MaxFails == 3           \* the downstream fails at most this often in a row
ConcMaxTime == 4        \* the clock of the concurrent callers stops here
MaxAdmits == 2          \* the history counter halfOpenAdmits saturates here
TimedMaxTime == 14      \* the clock stops here when a Request is timed
ShutdownTimeout == 3    \* main's 30 * time.Second, in clock units

\* ------------------------------------------------------ program constants
CircuitClosed == 0
CircuitOpen == 1
CircuitHalfOpen == 2
UptimeInterval == 1     \* time.NewTicker(time.Second): the clock unit

\* Goroutines that call Client.Request.  The agent's scheduler is the only
\* caller in the running program; the second caller exercises the "safe for
\* concurrent callers" contract of the breaker.
ConcCallers == {"sched", "other"}

\* What one call of doRequest can produce before its result is classified.
Statuses == {200, 304, 404, 500}
NoErr == [kind |-> "nil", code |-> 0]
StatusResp(s) == [kind |-> "status", code |-> s]
NetErr == [kind |-> "net_err", code |-> 0]
TimeoutErr == [kind |-> "timeout", code |-> 0]
CanceledErr == [kind |-> "canceled", code |-> 0]
MarshalErr == [kind |-> "marshal_err", code |-> 0]
CreateErr == [kind |-> "create_err", code |-> 0]
CollectErr == [kind |-> "collect_err", code |-> 0]
ResolveErr == [kind |-> "resolve_err", code |-> 0]
Bodies == {"ok", "unmarshalable", "bad_url"}

NoResult == [kind |-> "none", err |-> NoErr]
ResultOf(k, e) == [kind |-> k, err |-> e]

VARIABLES
    state,          \* CircuitBreaker.state
    failureCount,   \* CircuitBreaker.failureCount
    lastFailure,    \* CircuitBreaker.lastFailure
    tokens,         \* rate.Limiter token balance
    now,            \* wall clock
    ctxDone,        \* the caller's context has been cancelled
    pc,             \* position of each caller inside Request
    attempt,        \* loop variable of Request
    lastErr,        \* local lastErr of Request
    body,           \* the (method, path, body) argument, by how it builds
    resp,           \* what the latest doRequest obtained
    result,         \* return value of the latest Request
    timerStart,     \* creation time of the pending time.After(retryDelay)
    callStart,      \* start time of the latest doRequest
    wire,           \* the request of each caller that is in flight
    firstStart,     \* history: start time of the first doRequest of Request
    lateStart,      \* history: the current Request began after cancellation
    log,            \* history: events of the current Request of each caller
    consecFails,    \* history: RecordFailure calls since the last RecordSuccess
    halfOpenAdmits, \* history: AllowRequest = true since Open -> HalfOpen
    admitted,       \* history: tokens handed out by the limiter so far
    loopPc,         \* position of Start inside its for/select loop
    mPending,       \* a tick waits in metricsTicker.C
    cPending,       \* a tick waits in checkinTicker.C
    uPending,       \* a tick waits in uptimeTicker.C
    mLeft,          \* clock units until metricsTicker fires next
    cLeft,          \* clock units until checkinTicker fires next
    uLeft,          \* clock units until uptimeTicker fires next
    startRet,       \* return value of Start
    tickErr,        \* err of the latest Collect or getOutboundIP
    uptime,         \* PrometheusMetrics.uptime
    lastCheckin,    \* PrometheusMetrics.lastCheckin, -1 before the first Set
    running,        \* history: tick handlers begun and not yet finished
    mainPc,         \* position of main from its wait for a signal on
    httpPc,         \* position of the goroutine that runs server.Start
    shutdownLeft,   \* clock units until shutdownCtx expires, -1 before it exists
    doneClosed,     \* main's channel done has been closed
    mainUPending,   \* a tick waits in the uptimeTicker.C of main
    upPc            \* position of main's goroutine that records uptime

bvars == <<state, failureCount, lastFailure>>
cvars == <<pc, attempt, lastErr, body, resp, result, timerStart, callStart,
          wire, firstStart, lateStart>>
rvars == <<wire, firstStart>>
hvars == <<log, consecFails, halfOpenAdmits>>
lvars == <<tokens, admitted>>
tvars == <<mPending, cPending, uPending, mLeft, cLeft, uLeft>>
pvars == <<uptime, lastCheckin>>
mvars == <<mainPc, httpPc, shutdownLeft, doneClosed>>
wvars == <<mainUPending, upPc>>
svars == <<loopPc, tvars, startRet, tickErr, pvars, running, mvars, wvars>>
vars == <<state, failureCount, lastFailure, tokens, now, ctxDone, pc, attempt,
          lastErr, body, resp, result, timerStart, callStart, wire,
          firstStart, lateStart, log, consecFails, halfOpenAdmits, admitted, loopPc, mPending, cPending,
          uPending, mLeft, cLeft, uLeft, startRet, tickErr, uptime, lastCheckin,
          running, mainPc, httpPc, shutdownLeft, doneClosed,
          mainUPending, upPc>>

Min(a, b) == IF a < b THEN a ELSE b

RECURSIVE Count(_, _)
Count(s, e) ==
    IF s = <<>> THEN 0
    ELSE (IF Head(s) = e THEN 1 ELSE 0) + Count(Tail(s), e)

Emit(c, evs) == log' = [log EXCEPT ![c] = log[c] \o evs]

\* ------------------------------------------------------------ the breaker
\* time.Since(cb.lastFailure) > cb.resetTimeout
Elapsed(t, last) == t - last > resetTimeout

\* Slip: a HalfOpen breaker lets nobody through.
AllowDecision_half(st, t, last) ==
    CASE st = CircuitClosed -> TRUE
      [] st = CircuitOpen -> t - last > resetTimeout
      [] st = CircuitHalfOpen -> FALSE
      [] OTHER -> FALSE

\* Slip: an Open breaker lets every request through.
AllowDecision_open(st, t, last) ==
    CASE st = CircuitClosed -> TRUE
      [] st = CircuitOpen -> TRUE
      [] st = CircuitHalfOpen -> TRUE
      [] OTHER -> FALSE

\* Slip: an Open breaker admits at exactly resetTimeout, without the probe
\* transition.
AllowDecision_ge(st, t, last) ==
    CASE st = CircuitClosed -> TRUE
      [] st = CircuitOpen -> t - last >= resetTimeout
      [] st = CircuitHalfOpen -> TRUE
      [] OTHER -> FALSE

\* The switch of AllowRequest: the value it returns.
AllowDecision(st, t, last) ==
    CASE st = CircuitClosed -> TRUE
      [] st = CircuitOpen -> Elapsed(t, last)
      [] st = CircuitHalfOpen -> TRUE
      [] OTHER -> FALSE

\* AllowRequest gives up its read lock before it takes the write lock.
AllowUpgrades(st, t, last) == st = CircuitOpen /\ Elapsed(t, last)

\* RecordSuccess
\* Slip: the count survives a success.
SuccessCount_keep(fc) == fc

SuccessCount(fc) == 0
SuccessState(st) == CircuitClosed

\* RecordFailure
FailureCount(fc) == fc + 1
\* Slip: the threshold is compared with > instead of >=.
FailureState_gt(st, fc) ==
    IF st = CircuitHalfOpen \/ fc > failureThreshold THEN CircuitOpen ELSE st

FailureState(st, fc) ==
    IF st = CircuitHalfOpen \/ fc >= failureThreshold THEN CircuitOpen ELSE st

RecordSuccess(c) ==
    /\ Emit(c, <<"S">>)
    /\ failureCount' = SuccessCount(failureCount)
    /\ state' = SuccessState(state)
    /\ lastFailure' = lastFailure
    /\ consecFails' = 0
    /\ halfOpenAdmits' = 0

RecordFailure(c) ==
    /\ Emit(c, <<"F">>)
    /\ failureCount' = FailureCount(failureCount)
    /\ lastFailure' = now
    /\ state' = FailureState(state, FailureCount(failureCount))
    /\ consecFails' = consecFails + 1
    /\ halfOpenAdmits' = 0

\* --------------------------------------------------------------- doRequest
\* The configuration: cfg.APIServer, cfg.Token and the two endpoints.
BaseURL == "api_server"
Token == "token"
TelemetryEndpoint == "/telemetry"
CheckinEndpoint == "/checkin"

\* The payload sendCheckin builds.
CheckinPayload ==
    [token |-> Token, ip |-> "outbound_ip", status |-> "alive",
     timestamp |-> "now_rfc3339"]

\* The (method, path, body) that Request was called with.
ArgsOf(b) ==
    CASE b = "metrics" ->
           [method |-> "POST", path |-> TelemetryEndpoint, payload |-> "metrics"]
      [] b = "checkin" ->
           [method |-> "POST", path |-> CheckinEndpoint,
            payload |-> CheckinPayload]
      [] OTHER -> [method |-> "POST", path |-> "/path", payload |-> b]

NoReq == [method |-> "none"]

\* Slip: the Authorization header carries the bare token.
DoRequestWire_bare(b) ==
    [method |-> ArgsOf(b).method,
     url |-> <<BaseURL, ArgsOf(b).path>>,
     contentType |-> "application/json",
     authorization |-> <<Token>>,
     body |-> ArgsOf(b).payload]

\* The request doRequest builds: Sprintf("%s%s", baseURL, path), the two
\* headers and the marshalled body.
DoRequestWire(b) ==
    [method |-> ArgsOf(b).method,
     url |-> <<BaseURL, ArgsOf(b).path>>,
     contentType |-> "application/json",
     authorization |-> <<"Bearer", Token>>,
     body |-> ArgsOf(b).payload]

\* json.Marshal and http.NewRequestWithContext fail before any network use.
BuildErr(b) ==
    CASE b = "unmarshalable" -> MarshalErr
      [] b = "bad_url" -> CreateErr
      [] OTHER -> NoErr

\* Slip: only what the downstream answered or failed to answer counts as an
\* error of the attempt.
DoRequestErr_remote(r) ==
    IF r.kind = "status"
    THEN (IF r.code >= 400 THEN r ELSE NoErr)
    ELSE IF r.kind \in {"marshal_err", "create_err", "canceled"} THEN NoErr
    ELSE r

\* Slip: only the 5xx class is an error.
DoRequestErr_5xx(r) ==
    IF r.kind = "status"
    THEN (IF r.code >= 500 THEN r ELSE NoErr)
    ELSE r

\* The error doRequest returns for what it obtained (nil: NoErr).
DoRequestErr(r) ==
    IF r.kind = "status"
    THEN (IF r.code >= 400 THEN r ELSE NoErr)
    ELSE r

Init ==
    /\ state = CircuitClosed
    /\ failureCount = 0
    /\ lastFailure = 0
    /\ tokens = BurstLimit
    /\ now = 0
    /\ ctxDone = FALSE
    /\ pc = [c \in ConcCallers |-> "idle"]
    /\ attempt = [c \in ConcCallers |-> 0]
    /\ lastErr = [c \in ConcCallers |-> NoErr]
    /\ body = [c \in ConcCallers |-> "ok"]
    /\ resp = [c \in ConcCallers |-> NoErr]
    /\ result = [c \in ConcCallers |-> NoResult]
    /\ timerStart = [c \in ConcCallers |-> 0]
    /\ callStart = [c \in ConcCallers |-> 0]
    /\ wire = [c \in ConcCallers |-> NoReq]
    /\ firstStart = [c \in ConcCallers |-> 0]
    /\ lateStart = [c \in ConcCallers |-> FALSE]
    /\ log = [c \in ConcCallers |-> <<>>]
    /\ consecFails = 0
    /\ halfOpenAdmits = 0
    /\ admitted = 0
    /\ loopPc = "select"
    /\ mPending = FALSE
    /\ cPending = FALSE
    /\ uPending = FALSE
    /\ mLeft = MetricsInterval
    /\ cLeft = CheckinInterval
    /\ uLeft = UptimeInterval
    /\ startRet = NoErr
    /\ tickErr = NoErr
    /\ uptime = 0
    /\ lastCheckin = -1
    /\ running = 0
    /\ mainPc = "wait_signal"
    /\ httpPc = "new"
    /\ shutdownLeft = -1
    /\ doneClosed = FALSE
    /\ mainUPending = FALSE
    /\ upPc = "loop"

\* ----------------------------------------------------------- Client.Request
Done(c, k, e) ==
    /\ pc' = [pc EXCEPT ![c] = "done"]
    /\ result' = [result EXCEPT ![c] = ResultOf(k, e)]

\* Slip: the loop stops one attempt early.
LoopCond_lt(a) == a < maxRetries

\* for attempt := 0; attempt <= c.maxRetries; attempt++
LoopCond(a) == a <= maxRetries

\* Slip: the limiter is skipped.
AfterAllow_skip == "attempt"

\* Where Request goes once AllowRequest has returned true.
AfterAllow == "wait"

\* Slip: the limiter is consulted again before every retry.
LoopTop_wait(a) ==
    IF ~LoopCond(a) THEN "exhausted"
    ELSE IF a > 0 THEN "wait" ELSE "attempt"

\* Where Request goes at the top of the loop with the loop variable at a.
LoopTop(a) ==
    IF ~LoopCond(a) THEN "exhausted"
    ELSE IF a > 0 THEN "delay" ELSE "attempt"

\* Slip: only the first error is kept.
KeepErr_first(old, e) == IF old = NoErr THEN e ELSE old

\* The error kept by Request when an attempt returned error e.
KeepErr(old, e) == e

\* Request is called: its first statement is c.breaker.AllowRequest(), which
\* reads the state under the read lock.  ls is what the history lateStart
\* becomes.
BeginCall(c, b, ls) ==
    /\ pc[c] \in {"idle", "done"}
    /\ attempt' = [attempt EXCEPT ![c] = 0]
    /\ lastErr' = [lastErr EXCEPT ![c] = NoErr]
    /\ body' = [body EXCEPT ![c] = b]
    /\ resp' = [resp EXCEPT ![c] = NoErr]
    /\ log' = [log EXCEPT ![c] = <<"allow">>]
    /\ IF AllowUpgrades(state, now, lastFailure)
       THEN /\ pc' = [pc EXCEPT ![c] = "upgrade"]
            /\ result' = [result EXCEPT ![c] = NoResult]
            /\ halfOpenAdmits' = halfOpenAdmits
       ELSE IF AllowDecision(state, now, lastFailure)
       THEN /\ pc' = [pc EXCEPT ![c] = AfterAllow]
            /\ result' = [result EXCEPT ![c] = NoResult]
            /\ halfOpenAdmits' = IF state = CircuitHalfOpen
                                 THEN Min(halfOpenAdmits + 1, MaxAdmits)
                                 ELSE halfOpenAdmits
       ELSE /\ Done(c, "circuit_open", NoErr)
            /\ halfOpenAdmits' = halfOpenAdmits
    /\ lateStart' = ls
    /\ UNCHANGED <<bvars, lvars, now, ctxDone, timerStart, callStart,
                   consecFails, rvars>>

BeginRequest(c, b) == BeginCall(c, b, lateStart)

\* The same call, with the history noting whether ctx was already cancelled.
BeginRequestNoted(c, b) == BeginCall(c, b, [lateStart EXCEPT ![c] = ctxDone])

\* AllowRequest, second half: the write lock is held and HalfOpen is stored.
Upgrade(c) ==
    /\ pc[c] = "upgrade"
    /\ state' = CircuitHalfOpen
    /\ halfOpenAdmits' = 1
    /\ pc' = [pc EXCEPT ![c] = AfterAllow]
    /\ UNCHANGED <<failureCount, lastFailure, lvars, now, ctxDone, attempt,
                   lastErr, body, wire, firstStart, lateStart, resp, result, timerStart, callStart, log,
                   consecFails>>

\* Leaving the limiter with a token: the for loop starts with attempt = 0.
EnterLoop(c) ==
    /\ tokens' = tokens - 1
    /\ admitted' = admitted + 1
    /\ Emit(c, <<"wait">>)
    /\ IF LoopTop(0) = "exhausted"
       THEN Done(c, "transport", lastErr[c])
       ELSE /\ pc' = [pc EXCEPT ![c] = LoopTop(0)]
            /\ result' = result

\* Slip: Wait does not look at the context before it reserves a token.
WaitFails_never(cancelled) == FALSE

\* Wait returns the context's error at once when the context is done.
WaitFails(cancelled) == cancelled

\* c.limiter.Wait(ctx) is called.
WaitEnter(c) ==
    /\ pc[c] = "wait"
    /\ IF WaitFails(ctxDone)
       THEN /\ Done(c, "rate_limit", CanceledErr)
            /\ UNCHANGED <<lvars, log>>
       ELSE IF tokens > 0
       THEN EnterLoop(c)
       ELSE /\ pc' = [pc EXCEPT ![c] = "blocked"]
            /\ UNCHANGED <<lvars, log, result>>
    /\ UNCHANGED <<bvars, now, ctxDone, attempt, lastErr, body, wire, firstStart, lateStart, resp,
                   timerStart, callStart, consecFails, halfOpenAdmits>>

\* A blocked Wait gets its token.
WaitWake(c) ==
    /\ pc[c] = "blocked"
    /\ tokens > 0
    /\ EnterLoop(c)
    /\ UNCHANGED <<bvars, now, ctxDone, attempt, lastErr, body, wire, firstStart, lateStart, resp,
                   timerStart, callStart, consecFails, halfOpenAdmits>>

\* A blocked Wait sees ctx.Done().
WaitCancel(c) ==
    /\ pc[c] = "blocked"
    /\ ctxDone
    /\ Done(c, "rate_limit", CanceledErr)
    /\ UNCHANGED <<bvars, lvars, now, ctxDone, attempt, lastErr, body, wire, firstStart, lateStart, resp,
                   timerStart, callStart, log, consecFails, halfOpenAdmits>>

\* Slip: the timer of the delay runs twice as long.
DelayOver_double(t, start) == t - start >= 2 * retryDelay

\* select: case <-time.After(c.retryDelay)
DelayOver(t, start) == t - start >= retryDelay

DelayExpire(c) ==
    /\ pc[c] = "delay"
    /\ DelayOver(now, timerStart[c])
    /\ pc' = [pc EXCEPT ![c] = "attempt"]
    /\ UNCHANGED <<bvars, lvars, now, ctxDone, attempt, lastErr, body, wire, firstStart, lateStart, resp,
                   result, timerStart, callStart, hvars>>

\* Slip: a cancelled delay ends like a Request that ran out of retries.
DelayCancel_transport(c) ==
    /\ pc[c] = "delay"
    /\ ctxDone
    /\ Done(c, "transport", lastErr[c])
    /\ UNCHANGED <<bvars, lvars, now, ctxDone, attempt, lastErr, body, wire, firstStart, lateStart, resp,
                   timerStart, callStart, hvars>>

\* select: case <-ctx.Done(): return nil, ctx.Err()
DelayCancel(c) ==
    /\ pc[c] = "delay"
    /\ ctxDone
    /\ Done(c, "ctx_err", CanceledErr)
    /\ UNCHANGED <<bvars, lvars, now, ctxDone, attempt, lastErr, body, wire, firstStart, lateStart, resp,
                   timerStart, callStart, hvars>>

\* doRequest is entered: the request is built and, when that works, handed
\* to httpClient.Do.  A context that is already done makes Do fail at once,
\* before anything is sent.  fs is what the history firstStart becomes.
EnterDoRequest(c, fs) ==
    /\ pc[c] = "attempt"
    /\ IF BuildErr(body[c]) # NoErr
       THEN /\ resp' = [resp EXCEPT ![c] = BuildErr(body[c])]
            /\ pc' = [pc EXCEPT ![c] = "ret"]
            /\ Emit(c, <<"do">>)
       ELSE IF ctxDone
       THEN /\ resp' = [resp EXCEPT ![c] = CanceledErr]
            /\ pc' = [pc EXCEPT ![c] = "ret"]
            /\ Emit(c, <<"do">>)
       ELSE /\ resp' = [resp EXCEPT ![c] = NoErr]
            /\ pc' = [pc EXCEPT ![c] = "call"]
            /\ Emit(c, <<"do", "net">>)
    /\ wire' = IF BuildErr(body[c]) = NoErr /\ ~ctxDone
               THEN [wire EXCEPT ![c] = DoRequestWire(body[c])]
               ELSE wire
    /\ callStart' = [callStart EXCEPT ![c] = now]
    /\ firstStart' = fs
    /\ UNCHANGED <<bvars, lvars, now, ctxDone, attempt, lastErr, body, lateStart,
                   result, timerStart, consecFails, halfOpenAdmits>>

\* resp, err := c.doRequest(ctx, method, path, body)
StartAttempt(c) == EnterDoRequest(c, firstStart)

\* The same step where the length of a Request is measured: the start of
\* its first attempt is noted.
StartAttemptTimed(c) ==
    EnterDoRequest(c, IF attempt[c] = 0
                      THEN [firstStart EXCEPT ![c] = now]
                      ELSE firstStart)

\* Slip: a call can end as cancelled although nobody cancelled the context.
Outcomes_spurious(t, start, cancelled) ==
    {StatusResp(s) : s \in Statuses} \cup {NetErr, CanceledErr}
    \cup (IF t - start >= RequestTimeout THEN {TimeoutErr} ELSE {})

\* What httpClient.Do can come back with at time t for a call begun at start.
Outcomes(t, start, cancelled) ==
    {StatusResp(s) : s \in Statuses} \cup {NetErr}
    \cup (IF t - start >= RequestTimeout THEN {TimeoutErr} ELSE {})
    \cup (IF cancelled THEN {CanceledErr} ELSE {})

\* httpClient.Do returns and doRequest reads the response.
CallReturn(c, o) ==
    /\ pc[c] = "call"
    /\ o \in Outcomes(now, callStart[c], ctxDone)
    /\ resp' = [resp EXCEPT ![c] = o]
    /\ pc' = [pc EXCEPT ![c] = "ret"]
    /\ wire' = [wire EXCEPT ![c] = NoReq]
    /\ UNCHANGED <<bvars, lvars, now, ctxDone, attempt, lastErr, body, firstStart, lateStart,
                   result, timerStart, callStart, hvars>>

\* Slip: the failure of the final attempt is not recorded on the breaker.
HandleReturn_skip(c) ==
    /\ pc[c] = "ret"
    /\ IF DoRequestErr(resp[c]) # NoErr
       THEN /\ lastErr' = [lastErr EXCEPT
                             ![c] = KeepErr(lastErr[c], DoRequestErr(resp[c]))]
            /\ IF LoopCond(attempt[c] + 1)
               THEN RecordFailure(c)
               ELSE UNCHANGED <<bvars, hvars>>
            /\ attempt' = [attempt EXCEPT ![c] = attempt[c] + 1]
            /\ timerStart' = [timerStart EXCEPT ![c] = now]
            /\ IF LoopTop(attempt[c] + 1) = "exhausted"
               THEN Done(c, "transport", lastErr'[c])
               ELSE /\ pc' = [pc EXCEPT ![c] = LoopTop(attempt[c] + 1)]
                    /\ result' = result
       ELSE /\ RecordSuccess(c)
            /\ Done(c, "ok", NoErr)
            /\ UNCHANGED <<lastErr, attempt, timerStart>>
    /\ UNCHANGED <<lvars, now, ctxDone, body, wire, firstStart, lateStart, resp, callStart>>

\* doRequest has returned (resp, err) to the loop of Request.
HandleReturn(c) ==
    /\ pc[c] = "ret"
    /\ IF DoRequestErr(resp[c]) # NoErr
       THEN /\ lastErr' = [lastErr EXCEPT
                             ![c] = KeepErr(lastErr[c], DoRequestErr(resp[c]))]
            /\ RecordFailure(c)
            /\ attempt' = [attempt EXCEPT ![c] = attempt[c] + 1]
            /\ timerStart' = [timerStart EXCEPT ![c] = now]
            /\ IF LoopTop(attempt[c] + 1) = "exhausted"
               THEN Done(c, "transport", lastErr'[c])
               ELSE /\ pc' = [pc EXCEPT ![c] = LoopTop(attempt[c] + 1)]
                    /\ result' = result
       ELSE /\ RecordSuccess(c)
            /\ Done(c, "ok", NoErr)
            /\ UNCHANGED <<lastErr, attempt, timerStart>>
    /\ UNCHANGED <<lvars, now, ctxDone, body, wire, firstStart, lateStart, resp, callStart>>

\* ------------------------------------------------------------ environment
\* Slip: the bucket is not capped at the burst size.
Refill_nocap(tk) == tk + RateLimit

\* One clock unit of replenishment of the limiter, capped at the burst size.
Refill(tk) == Min(tk + RateLimit, BurstLimit)

\* The clock advances; the limiter refills; a pending httpClient.Do cannot
\* outlive its Timeout.
\* The caller is parked in a select whose ctx.Done() case has become ready
\* before its timer fired: the select takes that case, whatever time passes
\* before the goroutine runs again.
Woken(c) ==
    /\ ctxDone
    /\ \/ pc[c] = "blocked" /\ tokens = 0
       \/ pc[c] = "delay" /\ ~DelayOver(now, timerStart[c])

Tick ==
    /\ now < MaxTime
    /\ \A c \in ConcCallers : pc[c] = "call" => now - callStart[c] < RequestTimeout
    /\ \A c \in ConcCallers : ~Woken(c)
    /\ now' = now + 1
    /\ tokens' = Refill(tokens)
    /\ UNCHANGED <<bvars, ctxDone, cvars, hvars, admitted>>

\* The context handed to Request is cancelled.
Cancel ==
    /\ ~ctxDone
    /\ ctxDone' = TRUE
    /\ UNCHANGED <<bvars, lvars, now, cvars, hvars>>

\* ------------------------------------------------------------------ specs
\* The agent: one goroutine calls Request.
Next ==
    \/ /\ \E b \in Bodies : BeginRequestNoted("sched", b)
       /\ UNCHANGED svars
    \/ /\ Upgrade("sched")
       /\ UNCHANGED svars
    \/ /\ WaitEnter("sched")
       /\ UNCHANGED svars
    \/ /\ WaitWake("sched")
       /\ UNCHANGED svars
    \/ /\ WaitCancel("sched")
       /\ UNCHANGED svars
    \/ /\ DelayExpire("sched")
       /\ UNCHANGED svars
    \/ /\ DelayCancel("sched")
       /\ UNCHANGED svars
    \/ /\ StartAttempt("sched")
       /\ UNCHANGED svars
    \/ /\ \E o \in Outcomes(now, callStart["sched"], ctxDone) : CallReturn("sched", o)
       /\ UNCHANGED svars
    \/ /\ HandleReturn("sched")
       /\ UNCHANGED svars
    \/ /\ Tick
       /\ UNCHANGED svars
    \/ /\ Cancel
       /\ UNCHANGED svars

Spec == Init /\ [][Next]_vars

\* The client shared by concurrent callers.
NextConc ==
    \/ /\ \E c \in ConcCallers : BeginRequest(c, "ok")
       /\ UNCHANGED svars
    \/ /\ \E c \in ConcCallers : Upgrade(c)
       /\ UNCHANGED svars
    \/ /\ \E c \in ConcCallers : WaitEnter(c)
       /\ UNCHANGED svars
    \/ /\ \E c \in ConcCallers : WaitWake(c)
       /\ UNCHANGED svars
    \/ /\ \E c \in ConcCallers : WaitCancel(c)
       /\ UNCHANGED svars
    \/ /\ \E c \in ConcCallers : DelayExpire(c)
       /\ UNCHANGED svars
    \/ /\ \E c \in ConcCallers : DelayCancel(c)
       /\ UNCHANGED svars
    \/ /\ \E c \in ConcCallers : StartAttempt(c)
       /\ UNCHANGED svars
    \/ /\ \E c \in ConcCallers :
            \E o \in {StatusResp(200), StatusResp(500)} : CallReturn(c, o)
       /\ UNCHANGED svars
    \/ /\ \E c \in ConcCallers : HandleReturn(c)
       /\ UNCHANGED svars
    \/ /\ now < ConcMaxTime
       /\ Tick
       /\ UNCHANGED svars
    \/ /\ Cancel
       /\ UNCHANGED svars

SpecConc == Init /\ [][NextConc]_vars

\* ------------------------------------------------- the length of a Request
\* The caller has nothing to do but wait: it is outside Request, or parked
\* in limiter.Wait without a token, in the retry delay before its timer
\* fires, or in httpClient.Do before the per-request timeout.
Waiting(c) ==
    \/ pc[c] \in {"idle", "done"}
    \/ pc[c] = "blocked" /\ tokens = 0 /\ ~ctxDone
    \/ pc[c] = "delay" /\ ~DelayOver(now, timerStart[c]) /\ ~ctxDone
    \/ pc[c] = "call" /\ now - callStart[c] < RequestTimeout

\* A clock unit passes while every caller waits: the steps of Request
\* itself take no time.
TickWaiting ==
    /\ now < TimedMaxTime
    /\ \A c \in ConcCallers : Waiting(c)
    /\ now' = now + 1
    /\ tokens' = Refill(tokens)
    /\ UNCHANGED <<bvars, ctxDone, cvars, hvars, admitted>>

\* What the downstream does when the length of a Request is measured: it
\* answers 200, or it does not answer and the call runs into
\* http.Client.Timeout.
TimedOutcomes(t, start, cancelled) ==
    Outcomes(t, start, cancelled) \cap {StatusResp(200), TimeoutErr, CanceledErr}

\* One caller whose Requests are timed from the start of the first attempt.
NextTimed ==
    \/ /\ BeginRequest("sched", "ok")
       /\ UNCHANGED svars
    \/ /\ Upgrade("sched")
       /\ UNCHANGED svars
    \/ /\ WaitEnter("sched")
       /\ UNCHANGED svars
    \/ /\ WaitWake("sched")
       /\ UNCHANGED svars
    \/ /\ WaitCancel("sched")
       /\ UNCHANGED svars
    \/ /\ DelayExpire("sched")
       /\ UNCHANGED svars
    \/ /\ DelayCancel("sched")
       /\ UNCHANGED svars
    \/ /\ StartAttemptTimed("sched")
       /\ UNCHANGED svars
    \/ /\ \E o \in TimedOutcomes(now, callStart["sched"], ctxDone) :
            CallReturn("sched", o)
       /\ UNCHANGED svars
    \/ /\ HandleReturn("sched")
       /\ UNCHANGED svars
    \/ /\ TickWaiting
       /\ UNCHANGED svars
    \/ /\ Cancel
       /\ UNCHANGED svars

SpecTimed == Init /\ [][NextTimed]_vars

\* ------------------------------------------------- TelemetryClient.Start
\* Slip: the ticker fires once, as a time.Timer does.
NextLeft_once(left, interval) == IF left <= 1 THEN 0 ELSE left - 1

\* A time.Ticker fires when its period has run out and starts it again.
NextLeft(left, interval) == IF left = 1 THEN interval ELSE left - 1

\* The channel of a time.Ticker holds one tick; a tick that finds it full is
\* dropped.
Deliver(pending, left) == pending \/ left = 1

\* One clock unit passes for the three tickers of Start; the deferred Stop
\* calls silence them once Start has returned.
AdvanceTickers ==
    IF loopPc = "stopped"
    THEN UNCHANGED tvars
    ELSE /\ mPending' = Deliver(mPending, mLeft)
         /\ cPending' = Deliver(cPending, cLeft)
         /\ uPending' = Deliver(uPending, uLeft)
         /\ mLeft' = NextLeft(mLeft, MetricsInterval)
         /\ cLeft' = NextLeft(cLeft, CheckinInterval)
         /\ uLeft' = NextLeft(uLeft, UptimeInterval)

\* Slip: the loop polls its channels while a handler is still at work.
AtSelect_any(lp) == lp # "stopped"

\* Start is at its select statement, ready to receive.
AtSelect(lp) == lp = "select"

\* Slip: Start returns nil on cancellation.
SelectDone_nil ==
    /\ AtSelect(loopPc)
    /\ ctxDone
    /\ loopPc' = "stopped"
    /\ startRet' = NoErr
    /\ UNCHANGED <<bvars, lvars, now, ctxDone, cvars, hvars, tvars, pvars,
                   tickErr, running, mvars, wvars>>

\* case <-ctx.Done(): return ctx.Err()
SelectDone ==
    /\ AtSelect(loopPc)
    /\ ctxDone
    /\ loopPc' = "stopped"
    /\ startRet' = CanceledErr
    /\ UNCHANGED <<bvars, lvars, now, ctxDone, cvars, hvars, tvars, pvars,
                   tickErr, running, mvars, wvars>>

\* case <-metricsTicker.C: t.collector.Collect() is called.
SelectMetrics ==
    /\ AtSelect(loopPc)
    /\ mPending
    /\ mPending' = FALSE
    /\ loopPc' = "collect"
    /\ running' = running + 1
    /\ UNCHANGED <<bvars, lvars, now, ctxDone, cvars, hvars, cPending,
                   uPending, mLeft, cLeft, uLeft, startRet, tickErr,
                   pvars, mvars, wvars>>

\* Slip: the metrics are sent whether or not they could be collected.
AfterCollect_send(ok) == "in_metrics"

\* Where the loop goes when Collect has returned.
AfterCollect(ok) == IF ok THEN "in_metrics" ELSE "select"

\* Collect returns; on an error the loop continues, otherwise sendMetrics
\* calls Request.
CollectDone(ok) ==
    /\ loopPc = "collect"
    /\ loopPc' = AfterCollect(ok)
    /\ tickErr' = IF ok THEN NoErr ELSE CollectErr
    /\ IF AfterCollect(ok) = "in_metrics"
       THEN /\ BeginRequest("sched", "metrics")
            /\ running' = running
       ELSE /\ running' = running - 1
            /\ UNCHANGED <<bvars, lvars, now, ctxDone, cvars, hvars>>
    /\ UNCHANGED <<tvars, startRet, pvars, mvars, wvars>>

\* Slip: a failed transmission ends the loop.
MetricsReturn_fatal ==
    /\ loopPc = "in_metrics"
    /\ pc["sched"] = "done"
    /\ IF result["sched"].kind = "ok"
       THEN loopPc' = "select" /\ startRet' = startRet
       ELSE loopPc' = "stopped" /\ startRet' = NetErr
    /\ running' = running - 1
    /\ UNCHANGED <<bvars, lvars, now, ctxDone, cvars, hvars, tvars, pvars,
                   tickErr, mvars, wvars>>

\* sendMetrics returns; its error is logged and the loop goes on.
MetricsReturn ==
    /\ loopPc = "in_metrics"
    /\ pc["sched"] = "done"
    /\ loopPc' = "select"
    /\ running' = running - 1
    /\ UNCHANGED <<bvars, lvars, now, ctxDone, cvars, hvars, tvars, startRet,
                   tickErr, pvars, mvars, wvars>>

\* case <-checkinTicker.C: sendCheckin calls getOutboundIP.
SelectCheckin ==
    /\ AtSelect(loopPc)
    /\ cPending
    /\ cPending' = FALSE
    /\ loopPc' = "resolve"
    /\ running' = running + 1
    /\ UNCHANGED <<bvars, lvars, now, ctxDone, cvars, hvars, mPending,
                   uPending, mLeft, cLeft, uLeft, startRet, tickErr,
                   pvars, mvars, wvars>>

\* Slip: the check-in is sent without an address.
AfterResolve_send(ok) == "in_checkin"

\* Where sendCheckin goes when getOutboundIP has returned.
AfterResolve(ok) == IF ok THEN "in_checkin" ELSE "select"

\* getOutboundIP returns; on an error sendCheckin returns it, otherwise the
\* payload is built and Request is called.
ResolveDone(ok) ==
    /\ loopPc = "resolve"
    /\ loopPc' = AfterResolve(ok)
    /\ tickErr' = IF ok THEN NoErr ELSE ResolveErr
    /\ IF AfterResolve(ok) = "in_checkin"
       THEN /\ BeginRequest("sched", "checkin")
            /\ running' = running
       ELSE /\ running' = running - 1
            /\ UNCHANGED <<bvars, lvars, now, ctxDone, cvars, hvars>>
    /\ UNCHANGED <<tvars, startRet, pvars, mvars, wvars>>

\* Slip: the check-in is recorded whatever sendCheckin returned.
CheckinStamp_always(res, t, last) == t

\* if err := t.sendCheckin(ctx); err != nil { ... } else {
\* promMetrics.RecordCheckin(float64(time.Now().Unix())) }
CheckinStamp(res, t, last) == IF res.kind = "ok" THEN t ELSE last

\* sendCheckin returns; only a nil error reaches RecordCheckin.
CheckinReturn ==
    /\ loopPc = "in_checkin"
    /\ pc["sched"] = "done"
    /\ loopPc' = "select"
    /\ lastCheckin' = CheckinStamp(result["sched"], now, lastCheckin)
    /\ running' = running - 1
    /\ UNCHANGED <<bvars, lvars, now, ctxDone, cvars, hvars, tvars, startRet,
                   tickErr, uptime, mvars, wvars>>

\* Slip: the counter is set to the seconds it is given.
RecordUptime_set(u, seconds) == seconds

\* promMetrics.RecordUptime(seconds): p.uptime.Add(seconds)
RecordUptime(u, seconds) == u + seconds

\* case <-uptimeTicker.C: promMetrics.RecordUptime(1)
SelectUptime ==
    /\ AtSelect(loopPc)
    /\ uPending
    /\ uPending' = FALSE
    /\ uptime' = RecordUptime(uptime, 1)
    /\ UNCHANGED <<bvars, lvars, now, ctxDone, cvars, hvars, mPending,
                   cPending, mLeft, cLeft, uLeft, loopPc, startRet,
                   tickErr, lastCheckin, running, mvars, wvars>>

\* What the downstream of the agent answers with.
SchedOutcomes(t, start, cancelled) ==
    Outcomes(t, start, cancelled)
    \cap {StatusResp(200), StatusResp(500), TimeoutErr, CanceledErr}

\* The telemetry goroutine of the agent, its clock and its context.
NextSched ==
    \/ SelectDone
    \/ SelectMetrics
    \/ \E ok \in BOOLEAN : CollectDone(ok)
    \/ MetricsReturn
    \/ SelectCheckin
    \/ \E ok \in BOOLEAN : ResolveDone(ok)
    \/ CheckinReturn
    \/ SelectUptime
    \/ /\ Upgrade("sched")
       /\ UNCHANGED svars
    \/ /\ WaitEnter("sched")
       /\ UNCHANGED svars
    \/ /\ WaitWake("sched")
       /\ UNCHANGED svars
    \/ /\ WaitCancel("sched")
       /\ UNCHANGED svars
    \/ /\ DelayExpire("sched")
       /\ UNCHANGED svars
    \/ /\ DelayCancel("sched")
       /\ UNCHANGED svars
    \/ /\ StartAttempt("sched")
       /\ UNCHANGED svars
    \/ /\ \E o \in SchedOutcomes(now, callStart["sched"], ctxDone) :
            CallReturn("sched", o)
       /\ UNCHANGED svars
    \/ /\ HandleReturn("sched")
       /\ UNCHANGED svars
    \/ /\ Tick
       /\ AdvanceTickers
       /\ UNCHANGED <<loopPc, startRet, tickErr, pvars, running, mvars, wvars>>
    \/ /\ Cancel
       /\ UNCHANGED svars

SpecSched == Init /\ [][NextSched]_vars

\* ------------------------------------------------- the long-running agent
\* A time kept relative to the start of the sliding window.
Back(t) == IF t > 0 THEN t - 1 ELSE t

\* What the downstream answers with: it recovers after MaxFails failures.
LiveOutcomes(t, start, cancelled) ==
    Outcomes(t, start, cancelled)
    \cap (IF consecFails < MaxFails
          THEN {StatusResp(200), StatusResp(500), CanceledErr}
          ELSE {StatusResp(200), CanceledErr})

\* A clock unit passes once the clock has reached the end of the window: the
\* window moves on, so every time the client keeps is now one unit nearer to
\* its start.  The gauge, the counter and the history of the limiter, which
\* no step reads and which grow for ever in an agent that never stops, keep
\* only what happened since the window last moved.
TickShift ==
    /\ now = Window
    /\ \A c \in ConcCallers : pc[c] = "call" => now - callStart[c] < RequestTimeout
    /\ \A c \in ConcCallers : ~Woken(c)
    /\ tokens' = Refill(tokens)
    /\ lastFailure' = Back(lastFailure)
    /\ timerStart' = [c \in ConcCallers |-> Back(timerStart[c])]
    /\ callStart' = [c \in ConcCallers |-> Back(callStart[c])]
    /\ firstStart' = [c \in ConcCallers |-> Back(firstStart[c])]
    /\ lastCheckin' = -1
    /\ admitted' = 0
    /\ uptime' = 0
    /\ AdvanceTickers
    /\ UNCHANGED <<state, failureCount, now, ctxDone, pc, attempt, lastErr,
                   body, wire, lateStart, resp, result, hvars, loopPc, startRet,
                   tickErr, running, mvars, wvars>>

\* A clock unit passes inside the window.
TickWindow ==
    /\ now < Window
    /\ Tick
    /\ AdvanceTickers
    /\ UNCHANGED <<loopPc, startRet, tickErr, pvars, running, mvars, wvars>>

\* The steps of the Request that a tick handler has called.
RequestStep ==
    /\ \/ Upgrade("sched")
       \/ WaitEnter("sched")
       \/ WaitWake("sched")
       \/ WaitCancel("sched")
       \/ DelayExpire("sched")
       \/ DelayCancel("sched")
       \/ StartAttempt("sched")
       \/ \E o \in LiveOutcomes(now, callStart["sched"], ctxDone) :
            CallReturn("sched", o)
       \/ HandleReturn("sched")
    /\ UNCHANGED svars

\* The telemetry goroutine of an agent that runs for as long as it is not
\* cancelled.
NextLive ==
    \/ SelectDone
    \/ SelectMetrics
    \/ \E ok \in BOOLEAN : CollectDone(ok)
    \/ MetricsReturn
    \/ SelectCheckin
    \/ \E ok \in BOOLEAN : ResolveDone(ok)
    \/ CheckinReturn
    \/ SelectUptime
    \/ /\ Upgrade("sched")
       /\ UNCHANGED svars
    \/ /\ WaitEnter("sched")
       /\ UNCHANGED svars
    \/ /\ WaitWake("sched")
       /\ UNCHANGED svars
    \/ /\ WaitCancel("sched")
       /\ UNCHANGED svars
    \/ /\ DelayExpire("sched")
       /\ UNCHANGED svars
    \/ /\ DelayCancel("sched")
       /\ UNCHANGED svars
    \/ /\ StartAttempt("sched")
       /\ UNCHANGED svars
    \/ /\ \E o \in LiveOutcomes(now, callStart["sched"], ctxDone) :
            CallReturn("sched", o)
       /\ UNCHANGED svars
    \/ /\ HandleReturn("sched")
       /\ UNCHANGED svars
    \/ TickWindow
    \/ TickShift
    \/ /\ Cancel
       /\ UNCHANGED svars

\* Time passes, every step of a handler and of its Request is taken when it
\* stays possible, Collect and getOutboundIP do not fail for ever, and the
\* select takes a case that is ready again and again.
LiveFairness ==
    /\ WF_vars(TickWindow \/ TickShift)
    /\ WF_vars(RequestStep)
    /\ WF_vars(MetricsReturn \/ CheckinReturn)
    /\ SF_vars(CollectDone(TRUE))
    /\ SF_vars(ResolveDone(TRUE))
    /\ SF_vars(SelectDone)
    /\ SF_vars(SelectMetrics)
    /\ SF_vars(SelectCheckin)

SpecLive == Init /\ [][NextLive]_vars /\ LiveFairness

\* What stopping needs of the scheduling, and no more: a handler that runs
\* and its Request take their steps, Collect and getOutboundIP come back with
\* whatever result, and the select takes the Done case when it is ready again
\* and again.  Nothing is asked of the clock or of the downstream.
StopFairness ==
    /\ WF_vars(RequestStep)
    /\ WF_vars(\/ \E ok \in BOOLEAN : CollectDone(ok)
               \/ \E ok \in BOOLEAN : ResolveDone(ok)
               \/ MetricsReturn
               \/ CheckinReturn)
    /\ SF_vars(SelectDone)

SpecStop == Init /\ [][NextLive]_vars /\ StopFairness

\* ------------------------------------------- the writers of the counter
\* main's goroutine that records uptime, case <-uptimeTicker.C:
\* promMetrics.RecordUptime(1), on the PrometheusMetrics singleton that
\* Start writes too.
MainUptime ==
    /\ upPc = "loop"
    /\ mainUPending
    /\ mainUPending' = FALSE
    /\ uptime' = RecordUptime(uptime, 1)
    /\ UNCHANGED <<bvars, lvars, now, ctxDone, cvars, hvars, loopPc, tvars,
                   startRet, tickErr, lastCheckin, running, mvars, upPc>>

\* main's goroutine that records uptime, case <-ctx.Done(): return
MainUptimeDone ==
    /\ upPc = "loop"
    /\ ctxDone
    /\ upPc' = "returned"
    /\ UNCHANGED <<bvars, lvars, now, ctxDone, cvars, hvars, loopPc, tvars,
                   startRet, tickErr, pvars, running, mvars, mainUPending>>

\* A second passes: the tickers of Start and the uptimeTicker of main, which
\* has the period of the clock unit, fire.
ProcTick ==
    /\ Tick
    /\ AdvanceTickers
    /\ mainUPending' = TRUE
    /\ UNCHANGED <<loopPc, startRet, tickErr, pvars, running, mvars, upPc>>

\* The goroutines of the process that write the uptime counter: the loop of
\* Start, with its uptime case and its Done case, and main's goroutine.
NextProc ==
    \/ SelectUptime
    \/ SelectDone
    \/ MainUptime
    \/ MainUptimeDone
    \/ ProcTick
    \/ /\ Cancel
       /\ UNCHANGED svars

SpecProc == Init /\ [][NextProc]_vars

\* ------------------------------------------------------ main's shutdown
\* Everything main's shutdown leaves alone.
nonMain ==
    <<bvars, lvars, now, cvars, hvars, loopPc, tvars, startRet, tickErr, pvars,
      running, wvars>>

\* shutdownCtx.Done() is closed.
Expired(left) == left = 0

\* sig := <-sigChan
MainSignal ==
    /\ mainPc = "wait_signal"
    /\ mainPc' = "signalled"
    /\ UNCHANGED <<nonMain, ctxDone, httpPc, shutdownLeft, doneClosed>>

\* cancel()
MainCancel ==
    /\ mainPc = "signalled"
    /\ ctxDone' = TRUE
    /\ mainPc' = "cancelled"
    /\ UNCHANGED <<nonMain, httpPc, shutdownLeft, doneClosed>>

\* shutdownCtx, shutdownCancel := context.WithTimeout(..., 30*time.Second)
MainShutdownCtx ==
    /\ mainPc = "cancelled"
    /\ shutdownLeft' = ShutdownTimeout
    /\ mainPc' = "srv_shutdown"
    /\ UNCHANGED <<nonMain, ctxDone, httpPc, doneClosed>>

\* What Server.Shutdown can read in s.srv, which Server.Start writes in
\* another goroutine without synchronisation: nil before the write, and
\* either value after it.
SrvSeen(h) == IF h = "new" THEN {FALSE} ELSE {FALSE, TRUE}

\* server.Shutdown(shutdownCtx) is called: with s.srv == nil it returns at
\* once; otherwise http.Server.Shutdown closes the listeners, which makes
\* ListenAndServe return, and waits for the connections.
ServerShutdownCall ==
    /\ mainPc = "srv_shutdown"
    /\ \E seen \in SrvSeen(httpPc) :
         IF seen
         THEN /\ mainPc' = "in_shutdown"
              /\ httpPc' = IF httpPc = "serving" THEN "closing" ELSE httpPc
         ELSE /\ mainPc' = "spawn"
              /\ httpPc' = httpPc
    /\ UNCHANGED <<nonMain, ctxDone, shutdownLeft, doneClosed>>

\* http.Server.Shutdown returns nil: the connections have become idle.
SrvShutdownIdle ==
    /\ mainPc = "in_shutdown"
    /\ mainPc' = "spawn"
    /\ UNCHANGED <<nonMain, ctxDone, httpPc, shutdownLeft, doneClosed>>

\* http.Server.Shutdown returns ctx.Err(): shutdownCtx has expired.
SrvShutdownExpired ==
    /\ mainPc = "in_shutdown"
    /\ Expired(shutdownLeft)
    /\ mainPc' = "spawn"
    /\ UNCHANGED <<nonMain, ctxDone, httpPc, shutdownLeft, doneClosed>>

\* done := make(chan struct{}); go func() { wg.Wait(); close(done) }()
MainSpawnWaiter ==
    /\ mainPc = "spawn"
    /\ mainPc' = "select"
    /\ UNCHANGED <<nonMain, ctxDone, httpPc, shutdownLeft, doneClosed>>

\* wg.Wait() returns, both goroutines having called wg.Done(); close(done)
WaiterClose ==
    /\ mainPc = "select"
    /\ ~doneClosed
    /\ loopPc = "stopped"
    /\ httpPc = "returned"
    /\ doneClosed' = TRUE
    /\ UNCHANGED <<nonMain, ctxDone, mainPc, httpPc, shutdownLeft>>

\* Slip: main waits for the goroutines alone.
SelectReady_done(closed, expired) ==
    IF closed THEN {"end_done"} ELSE {}

\* The cases of main's last select that are ready.
SelectReady(closed, expired) ==
    (IF closed THEN {"end_done"} ELSE {})
    \cup (IF expired THEN {"end_timeout"} ELSE {})

\* select { case <-done: ... case <-shutdownCtx.Done(): ... }
MainSelect ==
    /\ mainPc = "select"
    /\ \E k \in SelectReady(doneClosed, Expired(shutdownLeft)) : mainPc' = k
    /\ UNCHANGED <<nonMain, ctxDone, httpPc, shutdownLeft, doneClosed>>

\* server.Start: s.srv is set and ListenAndServe begins to serve.
HttpStart ==
    /\ httpPc = "new"
    /\ httpPc' = "serving"
    /\ UNCHANGED <<nonMain, ctxDone, mainPc, shutdownLeft, doneClosed>>

\* ListenAndServe fails (the port is taken) and server.Start returns.
HttpFail ==
    /\ httpPc = "serving"
    /\ httpPc' = "returned"
    /\ UNCHANGED <<nonMain, ctxDone, mainPc, shutdownLeft, doneClosed>>

\* ListenAndServe returns http.ErrServerClosed and server.Start returns.
HttpReturn ==
    /\ httpPc = "closing"
    /\ httpPc' = "returned"
    /\ UNCHANGED <<nonMain, ctxDone, mainPc, shutdownLeft, doneClosed>>

\* A clock unit of shutdownCtx's timer passes.
TimerTick ==
    /\ shutdownLeft > 0
    /\ shutdownLeft' = shutdownLeft - 1
    /\ UNCHANGED <<nonMain, ctxDone, mainPc, httpPc, doneClosed>>

MainEnded == mainPc \in {"end_done", "end_timeout"}

\* The process from the moment main waits for its signal: the telemetry
\* goroutine sits in Start's select, the server goroutine runs server.Start.
NextMain ==
    \/ MainSignal
    \/ MainCancel
    \/ MainShutdownCtx
    \/ ServerShutdownCall
    \/ SrvShutdownIdle
    \/ SrvShutdownExpired
    \/ MainSpawnWaiter
    \/ WaiterClose
    \/ MainSelect
    \/ HttpStart
    \/ HttpFail
    \/ HttpReturn
    \/ SelectDone
    \/ TimerTick

\* main takes its own steps and the timer of shutdownCtx runs; nothing is
\* asked of the telemetry goroutine, of the server goroutine or of the
\* connections of the server.
MainFairness ==
    /\ WF_vars(MainCancel)
    /\ WF_vars(MainShutdownCtx)
    /\ WF_vars(ServerShutdownCall)
    /\ WF_vars(SrvShutdownExpired)
    /\ WF_vars(MainSpawnWaiter)
    /\ WF_vars(MainSelect)
    /\ WF_vars(TimerTick)

SpecMain == Init /\ [][NextMain]_vars /\ MainFairness

TypeOK ==
    /\ state \in {CircuitClosed, CircuitOpen, CircuitHalfOpen}
    /\ failureCount \in Nat
    /\ lastFailure \in 0..(MaxTime + TimedMaxTime)
    /\ tokens \in 0..BurstLimit
    /\ now \in 0..(MaxTime + TimedMaxTime)
    /\ ctxDone \in BOOLEAN
    /\ lateStart \in [ConcCallers -> BOOLEAN]
    /\ \A c \in ConcCallers :
         pc[c] \in {"idle", "upgrade", "wait", "blocked", "attempt", "delay",
                    "call", "ret", "done"}
    /\ loopPc \in {"select", "collect", "in_metrics", "resolve", "in_checkin",
                  "stopped"}
    /\ {mPending, cPending, uPending} \subseteq BOOLEAN
    /\ mLeft \in 1..MetricsInterval
    /\ cLeft \in 1..CheckinInterval
    /\ uLeft \in 1..UptimeInterval
    /\ startRet \in {NoErr, CanceledErr}
    /\ tickErr \in {NoErr, CollectErr, ResolveErr}
    /\ uptime \in 0..(2 * MaxTime)
    /\ lastCheckin \in -1..MaxTime
    /\ running \in 0..1
    /\ mainPc \in {"wait_signal", "signalled", "cancelled", "srv_shutdown",
                  "in_shutdown", "spawn", "select", "end_done", "end_timeout"}
    /\ httpPc \in {"new", "serving", "closing", "returned"}
    /\ shutdownLeft \in -1..ShutdownTimeout
    /\ doneClosed \in BOOLEAN
    /\ mainUPending \in BOOLEAN
    /\ upPc \in {"loop", "returned"}

\* ----------------------------------------------------------------- claims
Last(s) == s[Len(s)]

CallerVars(c) ==
    <<pc[c], attempt[c], lastErr[c], body[c], resp[c], result[c], log[c]>>

\* Caller c enters Request in this step.
Begins(c) == pc[c] \in {"idle", "done"} /\ CallerVars(c)' # CallerVars(c)

\* Caller c hands a request to the transport in this step.
NetIssued(c) ==
    /\ Len(log'[c]) > Len(log[c])
    /\ Last(log'[c]) = "net"
    /\ pc'[c] = "call"

\* Caller c records an outcome ev on the breaker in this step.
Records(c, ev) ==
    /\ Len(log'[c]) = Len(log[c]) + 1
    /\ Last(log'[c]) = ev

\* The breaker is Open and no more than resetTimeout has passed since the
\* last recorded failure.
OpenAndFresh == state = CircuitOpen /\ now - lastFailure <= resetTimeout

\* C1: once failureThreshold or more consecutive failures have been recorded
\* the breaker is Open, and every Request begun while resetTimeout has not
\* elapsed since the last failure returns the circuit-open error without a
\* network attempt.
C1_TripsAndDenies ==
    [][/\ (consecFails' = consecFails + 1 /\ consecFails' >= failureThreshold)
            => state' = CircuitOpen
       /\ \A c \in ConcCallers :
            (/\ consecFails >= failureThreshold
             /\ now - lastFailure <= resetTimeout
             /\ Begins(c))
            => /\ state = CircuitOpen
               /\ pc'[c] = "done"
               /\ result'[c].kind = "circuit_open"
               /\ Count(log'[c], "net") = 0
               /\ Count(log'[c], "do") = 0]_vars

C1_Witness ==
    /\ consecFails >= failureThreshold
    /\ state = CircuitOpen
    /\ now - lastFailure <= resetTimeout
    /\ pc["sched"] = "done"
    /\ result["sched"].kind = "circuit_open"

\* C2: a Request that meets an Open breaker before resetTimeout has elapsed
\* ends at once with the circuit-open error and changes nothing else: no
\* token is taken, nothing is sent, no attempt is made and the breaker keeps
\* its state, failureCount and lastFailure; no other Request ends that way.
C2_DenialHasNoEffect ==
    [][\A c \in ConcCallers :
         /\ (Begins(c) /\ OpenAndFresh)
              => /\ pc'[c] = "done"
                 /\ result'[c] = ResultOf("circuit_open", NoErr)
                 /\ log'[c] = <<"allow">>
                 /\ attempt'[c] = 0
                 /\ UNCHANGED <<state, failureCount, lastFailure, lvars>>
         /\ (Begins(c) /\ result'[c].kind = "circuit_open") => OpenAndFresh]_vars

C2_Witness ==
    /\ OpenAndFresh
    /\ pc["sched"] = "done"
    /\ result["sched"].kind = "circuit_open"
    /\ log["sched"] = <<"allow">>
    /\ tokens = BurstLimit

C4_SingleProbe == halfOpenAdmits <= 1

\* C5: in HalfOpen a recorded success gives Closed with failureCount = 0; a
\* recorded failure gives Open with lastFailure set to the current time.
C5_HalfOpenOutcome ==
    [][state = CircuitHalfOpen =>
         \A c \in ConcCallers :
           /\ Records(c, "S") => (state' = CircuitClosed /\ failureCount' = 0)
           /\ Records(c, "F") => (state' = CircuitOpen /\ lastFailure' = now
                                  /\ now' = now)]_vars

\* A probe that failed: the only recorded attempt of the Request came after
\* the threshold had been reached, and the window has just restarted.
C5_Witness ==
    /\ Count(log["sched"], "F") = 1
    /\ consecFails > failureThreshold
    /\ state = CircuitOpen
    /\ lastFailure = now
    /\ lastFailure > resetTimeout

\* C6: in every Request the events come in the order AllowRequest, then the
\* limiter wait, then the attempts: the breaker is checked once, the limiter
\* wait is the second event, and everything after it belongs to the loop.
C6_FixedOrder ==
    \A c \in ConcCallers :
      /\ pc[c] # "idle" => (Len(log[c]) >= 1 /\ log[c][1] = "allow")
      /\ Count(log[c], "allow") <= 1
      /\ Count(log[c], "wait") <= 1
      /\ Len(log[c]) >= 2 => log[c][2] = "wait"
      /\ \A i \in 3..Len(log[c]) : log[c][i] \in {"do", "net", "F", "S"}
      /\ pc[c] \in {"attempt", "delay", "call", "ret"} => Len(log[c]) >= 2

C6_Witness ==
    /\ pc["sched"] = "call"
    /\ Count(log["sched"], "do") >= 2
    /\ log["sched"][1] = "allow"
    /\ log["sched"][2] = "wait"

\* C7: a Request that got its token, whose context is not cancelled and none
\* of whose attempts succeeded makes exactly maxRetries + 1 attempts, starts
\* every retry at least retryDelay after the previous attempt ended, and
\* returns the transport error that wraps the error of its last attempt.
C7_ExhaustedRetries ==
    \A c \in ConcCallers :
      /\ (/\ pc[c] = "done"
          /\ ~ctxDone
          /\ Count(log[c], "wait") = 1
          /\ Count(log[c], "S") = 0)
         => /\ result[c].kind = "transport"
            /\ Count(log[c], "do") = maxRetries + 1
            /\ Count(log[c], "F") = maxRetries + 1
            /\ body[c] = "ok" => Count(log[c], "net") = maxRetries + 1
            /\ result[c].err = resp[c]
            /\ result[c].err # NoErr
      /\ (pc[c] \in {"call", "ret"} /\ Count(log[c], "do") >= 2)
         => callStart[c] - timerStart[c] >= retryDelay

\* The last attempt failed differently from the one before it.
C7_Witness ==
    /\ pc["sched"] = "done"
    /\ ~ctxDone
    /\ result["sched"] = ResultOf("transport", StatusResp(404))
    /\ Count(log["sched"], "net") = maxRetries + 1

\* The latest attempt of c has been classified: its record is the last event.
Classified(c) == Len(log[c]) >= 1 /\ Last(log[c]) \in {"F", "S"}

Is2xx(r) == r.kind = "status" /\ r.code >= 200 /\ r.code < 300

Below400(r) == r.kind = "status" /\ r.code < 400

\* What follows the classification of an attempt: a success ends the
\* Request with the response, a failure keeps the error.
Consequences(c) ==
    /\ Last(log[c]) = "S" => (pc[c] = "done" /\ result[c].kind = "ok")
    /\ Last(log[c]) = "F" => (lastErr[c] = resp[c] /\ result[c].kind # "ok")

\* C8 as stated: an attempt is a success exactly when the status is 2xx.
C8_SuccessIff2xx ==
    \A c \in ConcCallers :
      Classified(c) =>
        /\ (Last(log[c]) = "S") <=> Is2xx(resp[c])
        /\ Consequences(c)

\* C8 amended: an attempt is a success exactly when a response arrived whose
\* status is below 400; every status of 400 or more and every error of the
\* transport or of building the request is a failure.
C8_SuccessIffBelow400 ==
    \A c \in ConcCallers :
      Classified(c) =>
        /\ (Last(log[c]) = "S") <=> Below400(resp[c])
        /\ Consequences(c)

C8_Witness ==
    /\ resp["sched"] = StatusResp(304)
    /\ Last(log["sched"]) = "S"
    /\ pc["sched"] = "done"
    /\ result["sched"].kind = "ok"

\* Attempts of the current Request of c whose doRequest has returned and
\* been handled.
Handled(c) ==
    Count(log[c], "do") - (IF pc[c] \in {"call", "ret"} THEN 1 ELSE 0)

\* C9: within a Request the records on the breaker number exactly the
\* attempts handled, at most one of them is a success, and a success is the
\* last event of the Request.
C9_OneRecordPerAttempt ==
    \A c \in ConcCallers :
      /\ Count(log[c], "F") + Count(log[c], "S") = Handled(c)
      /\ Count(log[c], "S") <= 1
      /\ Count(log[c], "S") = 1 => (Last(log[c]) = "S" /\ pc[c] = "done")

C9_Witness ==
    /\ pc["sched"] = "done"
    /\ Count(log["sched"], "F") = maxRetries
    /\ Count(log["sched"], "S") = 1

\* C10: a Request takes at most one limiter token however many attempts it
\* makes: none when the breaker denies it, exactly one once the wait has
\* succeeded; the balance only ever drops by the one token of such a wait.
C10_OneTokenPerRequest ==
    [][/\ \A c \in ConcCallers :
            /\ Count(log'[c], "wait") <= 1
            /\ result'[c].kind = "circuit_open" => Count(log'[c], "wait") = 0
            /\ Count(log'[c], "do") >= 1 => Count(log'[c], "wait") = 1
       /\ tokens' < tokens =>
            /\ tokens' = tokens - 1
            /\ \E c \in ConcCallers :
                 /\ Records(c, "wait")
                 /\ Count(log[c], "wait") = 0]_vars

C10_Witness ==
    /\ Count(log["sched"], "do") = maxRetries + 1
    /\ Count(log["sched"], "wait") = 1
    /\ Count(log["sched"], "net") = maxRetries + 1

\* C11: when the context is cancelled before the limiter has a token for the
\* Request, the Request ends with the rate-limit error that wraps the
\* context's error, without an attempt and without a record on the breaker.
C11_CancelledWait ==
    [][\A c \in ConcCallers :
         /\ (/\ pc[c] \in {"wait", "blocked"}
             /\ ctxDone
             /\ (pc[c] = "wait" \/ tokens = 0)
             /\ CallerVars(c)' # CallerVars(c))
            => /\ pc'[c] = "done"
               /\ result'[c] = ResultOf("rate_limit", CanceledErr)
               /\ log'[c] = <<"allow">>
               /\ UNCHANGED <<state, failureCount, lastFailure, tokens>>
         /\ result'[c].kind = "rate_limit"
            => /\ ctxDone'
               /\ Count(log'[c], "do") = 0
               /\ Count(log'[c], "F") + Count(log'[c], "S") = 0]_vars

\* The wait was already blocked for want of a token when it was cancelled.
C11_Witness ==
    /\ result["sched"].kind = "rate_limit"
    /\ pc["sched"] = "done"
    /\ tokens = 0
    /\ ctxDone

\* C12: the limiter hands out at most BurstLimit tokens plus RateLimit per
\* elapsed clock unit, so N admitted Requests need at least
\* (N - BurstLimit) / RateLimit clock units; the balance stays within
\* 0..BurstLimit and every admission takes exactly one token.
C12_RateBound ==
    [][/\ admitted' <= BurstLimit + RateLimit * now'
       /\ tokens' >= 0 /\ tokens' <= BurstLimit
       /\ admitted' # admitted =>
            (admitted' = admitted + 1 /\ tokens' = tokens - 1)]_vars

\* More Requests than the burst were admitted, as fast as the limiter allows.
C12_Witness ==
    /\ admitted > BurstLimit
    /\ admitted = BurstLimit + RateLimit * now
    /\ ~ctxDone

\* The latest attempt of c went to the network and has come back.
CameBack(c) == pc[c] = "ret" /\ Last(log[c]) = "net"

\* C20 as stated: an attempt that is in flight when the context is cancelled
\* still ends only by the downstream's answer or by the per-request timeout.
C20_NotAbortedByCancel ==
    \A c \in ConcCallers :
      CameBack(c) => resp[c].kind \in {"status", "net_err", "timeout"}

\* C20 amended: an attempt in flight ends by the downstream's answer, by the
\* per-request timeout, or, once the context has been cancelled, by the
\* context's error; it never outlives the per-request timeout.
C20_AbortedOnlyByCancel ==
    [][\A c \in ConcCallers :
         (pc[c] = "call" /\ pc'[c] # "call") =>
           /\ pc'[c] = "ret"
           /\ resp'[c].kind \in {"status", "net_err", "timeout", "canceled"}
           /\ resp'[c].kind = "canceled" => ctxDone
           /\ resp'[c].kind = "timeout" => now - callStart[c] >= RequestTimeout
           /\ now - callStart[c] <= RequestTimeout]_vars

\* A call was cut short by the cancellation before its timeout.
C20_Witness ==
    /\ CameBack("sched")
    /\ resp["sched"] = CanceledErr
    /\ now - callStart["sched"] < RequestTimeout

\* A tick handler of the loop is at work at position lp.
InHandler(lp) == lp \in {"collect", "in_metrics", "resolve", "in_checkin"}

\* The loop takes a tick out of one of its ticker channels in this step.
TakesTick ==
    \/ mPending /\ ~mPending'
    \/ cPending /\ ~cPending'
    \/ uPending /\ ~uPending'

\* Start returns in this step.
Returns == loopPc # "stopped" /\ loopPc' = "stopped"

\* Nothing of the client, its breaker or its limiter changes in this step.
ClientUntouched ==
    UNCHANGED <<state, failureCount, lastFailure, tokens, admitted, pc,
                attempt, lastErr, body, resp, result, log>>

\* C13: Start returns only once the context is cancelled, and then from its
\* select; a handler that ends, whatever its Collect, getOutboundIP or Request
\* came to, puts the loop back at the select with nothing returned.
C13_OnlyCancellationStops ==
    [][/\ Returns => (ctxDone /\ loopPc = "select")
       /\ startRet' # NoErr => ctxDone'
       /\ (InHandler(loopPc) /\ ~InHandler(loopPc'))
            => (loopPc' = "select" /\ startRet' = NoErr)]_vars

\* The loop handles a tick after a transmission that used up its retries.
C13_Witness ==
    /\ loopPc \in {"collect", "resolve"}
    /\ result["sched"].kind = "transport"
    /\ state = CircuitOpen
    /\ ~ctxDone

\* C14 as stated: once the context is cancelled, the first select the loop
\* reaches returns, so no metrics, check-in or uptime tick is taken after the
\* cancellation.
C14_NoHandlerAfterCancel ==
    [][ctxDone => ~TakesTick]_vars

\* C16: at most one tick handler is at work; a tick is taken and the
\* cancellation is acted on only with no handler at work and no Request of
\* the loop unfinished, and a Request of the loop runs inside one handler.
C16_HandlersExclusive ==
    [][/\ running' <= 1
       /\ (TakesTick \/ Returns)
            => (running = 0 /\ pc["sched"] \in {"idle", "done"})
       /\ pc'["sched"] \notin {"idle", "done"}
            => (running' = 1 /\ loopPc' \in {"in_metrics", "in_checkin"})]_vars

\* Ticks of the other two tickers wait while sendMetrics sits in a retry delay.
C16_Witness ==
    /\ loopPc = "in_metrics"
    /\ pc["sched"] = "delay"
    /\ cPending
    /\ uPending
    /\ running = 1

\* C17: when Collect returns an error the loop goes back to its select with
\* no Request called and the client, breaker and limiter as they were, and
\* Collect is not called again for that tick; when Collect succeeds,
\* sendMetrics calls Request.
C17_CollectErrorSkipsSend ==
    [][loopPc = "collect" /\ loopPc' # "collect" =>
         IF tickErr' # NoErr
         THEN /\ loopPc' = "select"
              /\ ClientUntouched
              /\ mPending' = mPending
              /\ UNCHANGED <<startRet, uptime, lastCheckin>>
         ELSE /\ loopPc' = "in_metrics"
              /\ log'["sched"] = <<"allow">>]_vars

\* Collect failed on a tick after a transmission that went through.
C17_Witness ==
    /\ tickErr = CollectErr
    /\ loopPc = "select"
    /\ result["sched"].kind = "ok"
    /\ ~ctxDone

\* C18: when getOutboundIP returns an error the check-in is skipped: the loop
\* goes back to its select with no Request called, the client, breaker and
\* limiter as they were and the last check-in time unchanged; when it
\* succeeds, sendCheckin calls Request.
C18_ResolveErrorSkipsCheckin ==
    [][loopPc = "resolve" /\ loopPc' # "resolve" =>
         IF tickErr' # NoErr
         THEN /\ loopPc' = "select"
              /\ ClientUntouched
              /\ UNCHANGED <<startRet, uptime, lastCheckin>>
         ELSE /\ loopPc' = "in_checkin"
              /\ log'["sched"] = <<"allow">>]_vars

\* getOutboundIP failed after an earlier check-in had been recorded.
C18_Witness ==
    /\ tickErr = ResolveErr
    /\ loopPc = "select"
    /\ lastCheckin >= 0
    /\ ~ctxDone

\* C15: once the context is cancelled Start returns in the end, and what it
\* returns is the context's error.
C15_CancelEndsStart ==
    /\ ctxDone ~> (loopPc = "stopped" /\ startRet = CanceledErr)
    /\ [](loopPc = "stopped" => startRet = CanceledErr)

\* Start has returned after its context was cancelled in a retry delay.
C15_Witness ==
    /\ loopPc = "stopped"
    /\ startRet = CanceledErr
    /\ result["sched"].kind = "ctx_err"

C21_CancelledDelay ==
    [][\A c \in ConcCallers :
         (/\ pc[c] = "delay"
          /\ ctxDone
          /\ now - timerStart[c] < retryDelay
          /\ CallerVars(c)' # CallerVars(c))
         => /\ pc'[c] = "done"
            /\ result'[c] = [kind |-> "ctx_err", err |-> CanceledErr]
            /\ result'[c].kind # "transport"
            /\ log'[c] = log[c]
            /\ UNCHANGED <<state, failureCount, lastFailure, consecFails>>]_vars

\* A Request cancelled in its delay after an attempt that failed and was
\* recorded.
C21_Witness ==
    /\ pc["sched"] = "done"
    /\ result["sched"].kind = "ctx_err"
    /\ Count(log["sched"], "F") >= 1
    /\ failureCount >= 1
    /\ Last(log["sched"]) = "F"

\* C28 as stated: a success recorded while the breaker is Closed changes
\* nothing, the count being 0 already.
C28_SuccessInClosedNoOp ==
    [][\A c \in ConcCallers :
         (Records(c, "S") /\ state = CircuitClosed)
         => /\ failureCount = 0
            /\ UNCHANGED <<state, failureCount, lastFailure>>]_vars

\* C28: a success recorded while the breaker is Closed leaves the state
\* Closed and lastFailure as it was, and sets failureCount to 0 from whatever
\* it was below the threshold.
C28_SuccessInClosedResets ==
    [][\A c \in ConcCallers :
         (Records(c, "S") /\ state = CircuitClosed)
         => /\ state' = CircuitClosed
            /\ lastFailure' = lastFailure
            /\ failureCount < failureThreshold
            /\ failureCount' = 0]_vars

\* The first Request the limiter let through failed once, which left the
\* breaker Closed with a count of 1, and then succeeded.
C28_Witness ==
    /\ admitted = 1
    /\ Count(log["sched"], "F") = 1
    /\ Last(log["sched"]) = "S"
    /\ failureThreshold > 1
    /\ state = CircuitClosed
    /\ failureCount = 0

\* C27: the breaker leaves Open only for HalfOpen, and only once more than
\* resetTimeout has passed since the last failure; no success is recorded
\* while it is Open, and a failure recorded while it is Open changes
\* lastFailure alone.
C27_OpenLeavesOnlyByProbe ==
    [][/\ (state = CircuitOpen /\ state' # CircuitOpen)
          => /\ state' = CircuitHalfOpen
             /\ now - lastFailure > resetTimeout
       /\ \A c \in ConcCallers :
            /\ Records(c, "S") => state # CircuitOpen
            /\ (Records(c, "F") /\ state = CircuitOpen)
               => /\ state' = CircuitOpen
                  /\ failureCount' = failureCount]_vars

\* C22: every request handed to the network, on the first attempt and on
\* every retry, carries Authorization: Bearer <token> and Content-Type:
\* application/json and goes to the base URL followed by the path of the
\* handler that sends it, the telemetry path or the check-in path; the body
\* of a check-in holds the configured token and the status alive.
C22_RequestShape ==
    [][\A c \in ConcCallers :
         NetIssued(c)
         => /\ wire'[c].method = "POST"
            /\ wire'[c].authorization = <<"Bearer", "token">>
            /\ wire'[c].contentType = "application/json"
            /\ wire'[c].url[1] = "api_server"
            /\ (c = "sched" /\ loopPc = "in_metrics")
               => wire'[c].url = <<"api_server", "/telemetry">>
            /\ (c = "sched" /\ loopPc = "in_checkin")
               => /\ wire'[c].url = <<"api_server", "/checkin">>
                  /\ wire'[c].body.token = "token"
                  /\ wire'[c].body.status = "alive"]_vars

\* A retry of a check-in is in flight.
C22_Witness ==
    /\ pc["sched"] = "call"
    /\ attempt["sched"] >= 1
    /\ loopPc = "in_checkin"
    /\ wire["sched"].url = <<"api_server", "/checkin">>
    /\ wire["sched"].authorization = <<"Bearer", "token">>

\* C23: the uptime counter never goes down; every uptime tick the loop
\* handles adds exactly 1 to it, RecordUptime(s) adding exactly s; and no
\* other step, a metrics tick, a check-in tick or a step of a Request, changes
\* it.
C23_UptimeAdditive ==
    [][/\ uptime' >= uptime
       /\ (uPending /\ ~uPending') => uptime' = uptime + 1
       /\ uptime' # uptime => uptime' = uptime + 1
       /\ (\/ mPending /\ ~mPending'
           \/ cPending /\ ~cPending'
           \/ \E c \in ConcCallers : CallerVars(c)' # CallerVars(c)
           \/ <<state, failureCount, lastFailure>>' # <<state, failureCount, lastFailure>>)
          => uptime' = uptime
       /\ \A s \in 0..2 : RecordUptime(uptime, s) = uptime + s]_vars

\* Several uptime ticks were handled, a check-in has succeeded and an attempt
\* of the current Request has failed.
C23_Witness ==
    /\ uptime >= 3
    /\ Count(log["sched"], "F") >= 1
    /\ lastCheckin >= 0

\* C24: under any interleaving of the callers, a step that sets the state to
\* Closed leaves failureCount at 0, and the state is Open only with a
\* failureCount that the most recent RecordFailure left at failureThreshold
\* or more.
C24_StateCountCorrelation ==
    [][/\ (state' = CircuitClosed /\ state # CircuitClosed) => failureCount' = 0
       /\ \A c \in ConcCallers :
            /\ Records(c, "S") => (state' = CircuitClosed /\ failureCount' = 0)
            /\ (Records(c, "F") /\ state' = CircuitOpen)
               => failureCount' >= failureThreshold
       /\ state' = CircuitOpen => failureCount' >= failureThreshold]_vars

\* C25: AllowRequest is atomic: from its read of an Open breaker whose
\* timeout has passed to its write of HalfOpen no other caller records an
\* outcome, so the state it overwrites is the Open it read.
C25_AllowAtomic ==
    [][\A c \in ConcCallers :
         /\ (pc[c] = "upgrade" /\ pc'[c] # "upgrade") => state = CircuitOpen
         /\ pc[c] = "upgrade"
            => \A d \in ConcCallers \ {c} :
                 ~(Records(d, "S") \/ Records(d, "F"))]_vars

\* C30: under any interleaving of the callers a Closed breaker holds a
\* failureCount from 0 to failureThreshold - 1; failureCount is the number
\* of failures recorded since the last recorded success and is never
\* negative.
C30_ClosedBelowThreshold ==
    /\ failureThreshold >= 1
    /\ state = CircuitClosed => (0 <= failureCount /\ failureCount < failureThreshold)
    /\ failureCount = consecFails
    /\ failureCount >= 0

\* Both callers have recorded outcomes and the breaker is Closed one failure
\* short of opening.
C30_Witness ==
    /\ state = CircuitClosed
    /\ failureCount = failureThreshold - 1
    /\ Count(log["sched"], "S") >= 1
    /\ Last(log["other"]) = "F"

\* A Request of c that has made an attempt returns in this step.
ReturnsTimed(c) ==
    /\ pc[c] # "done"
    /\ pc'[c] = "done"
    /\ Count(log'[c], "do") >= 1

\* C26 as stated: a Request whose attempts all run into the per-request
\* timeout fails within maxRetries * RequestTimeout + maxRetries * retryDelay
\* of the start of its first attempt.
C26_TimeoutBoundMaxRetries ==
    [][\A c \in ConcCallers :
         (ReturnsTimed(c) /\ result'[c].kind = "transport" /\ ~ctxDone')
         => now' - firstStart'[c]
              <= maxRetries * RequestTimeout + maxRetries * retryDelay]_vars

\* C26: a Request whose attempts all run into the per-request timeout makes
\* maxRetries + 1 attempts and fails exactly
\* (maxRetries + 1) * RequestTimeout + maxRetries * retryDelay after the start
\* of its first attempt; no Request takes longer than that.
C26_TimeoutBoundAttempts ==
    [][\A c \in ConcCallers :
         /\ ReturnsTimed(c)
            => now' - firstStart'[c]
                 <= (maxRetries + 1) * RequestTimeout + maxRetries * retryDelay
         /\ (ReturnsTimed(c) /\ result'[c].kind = "transport" /\ ~ctxDone')
            => /\ Count(log'[c], "net") = maxRetries + 1
               /\ now' - firstStart'[c]
                    = (maxRetries + 1) * RequestTimeout + maxRetries * retryDelay]_vars

\* A Request has just failed after every one of its attempts timed out.
C26_Witness ==
    /\ pc["sched"] = "done"
    /\ result["sched"] = [kind |-> "transport", err |-> TimeoutErr]
    /\ ~ctxDone
    /\ Count(log["sched"], "net") = maxRetries + 1
    /\ now - firstStart["sched"]
         = (maxRetries + 1) * RequestTimeout + maxRetries * retryDelay

\* C29: once main has received the termination signal it cancels the shared
\* context, asks the server to shut down and reaches its end, whether or not
\* the telemetry goroutine and the server goroutine ever return: it ends on
\* done only when both have returned, and otherwise when shutdownCtx has
\* expired.
C29_ShutdownBounded ==
    /\ (mainPc = "signalled") ~> MainEnded
    /\ [](mainPc \notin {"wait_signal", "signalled"} => ctxDone)
    /\ [](mainPc = "end_done" => (loopPc = "stopped" /\ httpPc = "returned"))
    /\ [](mainPc = "end_timeout" => shutdownLeft = 0)
    /\ [][MainEnded => mainPc' = mainPc]_vars

\* main has ended on the expiry of shutdownCtx while neither goroutine has
\* returned.
C29_Witness ==
    /\ mainPc = "end_timeout"
    /\ loopPc # "stopped"
    /\ httpPc = "serving"
    /\ ctxDone

\* The attempt of c that has just come back ended in an error.
AttemptFailed(c) ==
    /\ pc[c] = "ret"
    /\ pc'[c] # "ret"
    /\ \/ resp[c].kind \in {"marshal_err", "create_err", "canceled", "net_err",
                            "timeout"}
       \/ resp[c].kind = "status" /\ resp[c].code >= 400

\* C31: an attempt that ends in an error, whatever the cause (the body cannot
\* be serialized, the request cannot be built, the context was cancelled, the
\* transport failed, the status is 400 or more), adds 1 to failureCount, sets
\* lastFailure to the current time, opens the breaker when the count reaches
\* the threshold, and lets the loop go on to the next attempt while one is
\* left.
C31_EveryErrorCounts ==
    [][\A c \in ConcCallers :
         AttemptFailed(c)
         => /\ Records(c, "F")
            /\ failureCount' = failureCount + 1
            /\ lastFailure' = now
            /\ failureCount + 1 >= failureThreshold => state' = CircuitOpen
            /\ attempt'[c] = attempt[c] + 1
            /\ attempt[c] < maxRetries => pc'[c] = "delay"
            /\ attempt[c] >= maxRetries
               => (pc'[c] = "done" /\ result'[c].kind = "transport")]_vars

\* The breaker has been opened by the failures of one Request none of whose
\* attempts reached the network.
C31_Witness ==
    /\ state = CircuitOpen
    /\ Count(log["sched"], "net") = 0
    /\ Count(log["sched"], "F") >= failureThreshold
    /\ failureCount = Count(log["sched"], "F")
    /\ lastErr["sched"].kind \in {"marshal_err", "create_err", "canceled"}

\* C32: the HalfOpen that AllowRequest stores stays until an attempt records
\* a success or a failure: a Request whose limiter wait is cancelled leaves
\* the state as it is, and every AllowRequest made while the breaker is
\* HalfOpen admits its Request.
C32_HalfOpenPersists ==
    [][/\ (state = CircuitHalfOpen /\ state' # CircuitHalfOpen)
          => \E c \in ConcCallers : Records(c, "S") \/ Records(c, "F")
       /\ \A c \in ConcCallers :
            /\ (Begins(c) /\ state = CircuitHalfOpen)
               => /\ pc'[c] = "wait"
                  /\ result'[c].kind # "circuit_open"
                  /\ state' = CircuitHalfOpen
            /\ (pc[c] \in {"wait", "blocked"} /\ pc'[c] = "done")
               => /\ result'[c].kind = "rate_limit"
                  /\ UNCHANGED <<state, failureCount, lastFailure>>]_vars

\* The probe's wait was cancelled, the breaker is still HalfOpen and a later
\* Request has been admitted by AllowRequest and cancelled in its wait too.
C32_Witness ==
    /\ state = CircuitHalfOpen
    /\ halfOpenAdmits = 2
    /\ ctxDone
    /\ pc["sched"] = "done"
    /\ result["sched"].kind = "rate_limit"
    /\ log["sched"] = <<"allow">>

\* C33: the uptime counter has one writer, the uptime tick of Start's loop,
\* so it changes only when that loop takes an uptime tick and it never
\* exceeds the number of seconds the process has run.
C33_SingleUptimeWriter ==
    [][/\ uptime' # uptime => (uPending /\ ~uPending')
       /\ uptime' <= now']_vars

\* C34: the last-check-in gauge changes only when a check-in handler ends
\* whose Request succeeded, and it is then set to the current time; a
\* check-in that fails, because the address cannot be resolved, the breaker
\* is open, the limiter wait is cancelled or the retries are exhausted, and
\* every metrics tick and uptime tick leave it as it was.
C34_CheckinOnlyOnSuccess ==
    [][/\ lastCheckin' # lastCheckin
          => /\ loopPc = "in_checkin" /\ loopPc' = "select"
             /\ result["sched"].kind = "ok"
             /\ Last(log["sched"]) = "S"
             /\ lastCheckin' = now
       /\ (/\ loopPc = "in_checkin" /\ loopPc' = "select"
           /\ result["sched"].kind \in {"circuit_open", "rate_limit",
                                         "transport", "ctx_err"})
          => lastCheckin' = lastCheckin
       /\ (loopPc = "resolve" /\ loopPc' = "select") => lastCheckin' = lastCheckin
       /\ (\/ loopPc \in {"collect", "in_metrics"}
           \/ mPending /\ ~mPending'
           \/ uPending /\ ~uPending')
          => lastCheckin' = lastCheckin]_vars

\* A check-in succeeded and a later one failed: the gauge still holds the
\* time of the first.
C34_Witness ==
    /\ lastCheckin >= 0
    /\ lastCheckin < now
    /\ loopPc = "select"
    /\ body["sched"] = "checkin"
    /\ pc["sched"] = "done"
    /\ result["sched"].kind \in {"circuit_open", "transport"}

\* C35: a Request that begins once ctx is cancelled never reaches the
\* network: it is only ever in AllowRequest, at the limiter or returned, its
\* limiter wait fails without blocking, it makes no doRequest attempt, takes
\* no token and records neither success nor failure; the one breaker change
\* it can cause is AllowRequest storing HalfOpen over Open.
C35_LateRequestStopsAtLimiter ==
    /\ [](lateStart["sched"]
          => /\ ctxDone
             /\ pc["sched"] \in {"upgrade", "wait", "done"}
             /\ log["sched"] = <<"allow">>
             /\ wire["sched"] = NoReq
             /\ pc["sched"] = "done"
                => result["sched"] \in {ResultOf("rate_limit", CanceledErr),
                                        ResultOf("circuit_open", NoErr)})
    /\ [][lateStart'["sched"]
           => /\ \/ UNCHANGED <<state, failureCount, lastFailure>>
                 \/ /\ pc["sched"] = "upgrade"
                    /\ state = CircuitOpen
                    /\ state' = CircuitHalfOpen
                    /\ UNCHANGED <<failureCount, lastFailure>>
              /\ tokens' >= tokens
              /\ admitted' = admitted
              /\ (/\ lateStart["sched"]
                  /\ pc["sched"] = "wait"
                  /\ CallerVars("sched")' # CallerVars("sched"))
                 => /\ pc'["sched"] = "done"
                    /\ result'["sched"] = ResultOf("rate_limit", CanceledErr)]_vars

\* The late Request found the breaker Open with resetTimeout elapsed, stored
\* HalfOpen as the only admission since, and then failed at the limiter.
C35_Witness ==
    /\ lateStart["sched"]
    /\ pc["sched"] = "done"
    /\ result["sched"] = ResultOf("rate_limit", CanceledErr)
    /\ state = CircuitHalfOpen
    /\ halfOpenAdmits = 1
====
